---------------------------- MODULE Spec2Model ----------------------------
(***************************************************************************)
(* EV charging-stop planning: the simple planner of                        *)
(* backend/src/services/route_planning_service.py (RoutePlanningService)   *)
(* over the station catalog of charging_station_service.py, and the        *)
(* detailed planner of backend/src/agents/route_optimizer.py               *)
(* (RouteOptimizerAgent) over charging_service.py and                      *)
(* navigation_service.py.                                                  *)
(*                                                                         *)
(* Units.  A coordinate is a point of one meridian, given as its arc       *)
(* length in km north of the equator, so that the haversine distance of    *)
(* two coordinates is the absolute difference of the two numbers.          *)
(* Percentages, km and kWh are integers.  Charging time is held in seconds *)
(* (minutes * 60) and money in hundredths (price * 100); the code's        *)
(* round(x, 1) and round(x, 2) are round_half_even on these units.         *)
(* In the detailed planner a battery level (a fraction 0..1 in the code)   *)
(* is held in units of 1/10000, an energy in units of 1/10000 kWh, a       *)
(* distance to a mock station in metres and a station score in units of    *)
(* 1/1050.                                                                 *)
(***************************************************************************)
EXTENDS Integers, Sequences, FiniteSets, TLC

VARIABLES
    stations_df,        \* ChargingStationService.stations_df: the shared catalog
    other_request,      \* arguments of a second caller's planning call
    request,            \* the arguments of calculate_charging_stops
    vehicle_connectors, \* supported_connectors of the vehicle the request is for
    pc,                 \* per call: "idle", "loop", "respond", "done"
    all_stations,       \* per call: the list get_all_stations returned
    loc,                \* per call: the locals of _find_optimal_stops
    pending,            \* per call: the stops, message and provider answer handed
                        \* to _create_route_response
    response,           \* per call: the dict calculate_charging_stops returned
    opt_request,        \* the arguments of RouteOptimizerAgent.optimize_route
    opt,                \* its position and the locals of _plan_charging_stops
    opt_response,       \* the RouteResponse it returned
    power_query,        \* the last call of get_stations_by_power and its result
    scored,             \* the last call of _calculate_station_score and its result
    best_lookup         \* the last call of find_best_charging_station and its result

simple_vars == <<stations_df, request, other_request, vehicle_connectors, pc, all_stations, loc,
                 pending, response>>

opt_vars == <<opt_request, opt, opt_response>>

query_vars == <<power_query, scored, best_lookup>>

vars == <<simple_vars, opt_vars, query_vars>>

---------------------------------------------------------------------------
(* Bounds of the model *)

\* stations of the generated catalogs lie 100 km apart, at most this many
MaxStations == 12

\* the planning calls made on one request
Runs == {1, 2}

None == "None"

\* before any call of get_stations_by_power
no_power_query == [called |-> FALSE, min_power |-> 0, max_power |-> 0, result |-> <<>>]

\* before any call of _calculate_station_score
nothing_scored == [called |-> FALSE, score |-> 0]

\* best_lookup before find_best_charging_station is called
no_lookup == [called |-> FALSE, result |-> <<>>]

---------------------------------------------------------------------------
(* Arithmetic helpers *)

\* exact integer quotient, for either sign of the divisor (b # 0)
Quot(a, b) == IF b < 0 THEN (0 - a) \div (0 - b) ELSE a \div b

Max(a, b) == IF a >= b THEN a ELSE b

RECURSIVE SumDistanceTraveled(_)
SumDistanceTraveled(stops) ==
    IF stops = <<>> THEN 0
    ELSE Head(stops).distance_traveled + SumDistanceTraveled(Tail(stops))

---------------------------------------------------------------------------
(* Geo-distance *)

\* RoutePlanningService.haversine_distance on one meridian: 6371 * |dlat|
haversine_distance(lat1, lat2) == IF lat1 >= lat2 THEN lat1 - lat2 ELSE lat2 - lat1

---------------------------------------------------------------------------
(* Station catalog: ChargingStationService *)

\* the metadata get_all_stations adds to one record
connector_type_of(power) ==
    IF power >= 150 THEN "DC Fast Charge (CCS/CHAdeMO)"
    ELSE IF power >= 50 THEN "DC Fast Charge (CCS)"
    ELSE "AC Type 2"

price_per_kwh_of(power) ==
    IF power >= 150 THEN 45 ELSE IF power >= 50 THEN 35 ELSE 25

with_metadata(row) ==
    [name |-> row.name, city |-> row.city, latitude |-> row.latitude,
     power_kw |-> row.power_kw,
     connector_type |-> connector_type_of(row.power_kw),
     price_per_kwh |-> price_per_kwh_of(row.power_kw)]

\* get_all_stations: fresh records built from the frame, [] when it is empty
get_all_stations(df) ==
    IF df = <<>> THEN <<>>
    ELSE [i \in 1..Len(df) |-> with_metadata(df[i])]

\* get_stations_by_power: the filtered frame is computed and dropped, and the
\* whole catalog is returned with its metadata
get_stations_by_power(df, min_power, max_power) ==
    LET filtered_df == SelectSeq(df, LAMBDA row :
                           row.power_kw >= min_power /\ row.power_kw <= max_power)
        stations == filtered_df
    IN  IF df = <<>> THEN <<>> ELSE get_all_stations(df)

---------------------------------------------------------------------------
(* Charging-stop planner: RoutePlanningService._find_optimal_stops *)

MIN_STATION_DISTANCE_KM == 100
SAFETY_RANGE_PERCENT == 80
MAX_DETOUR_KM == 30
MAX_SEGMENTS == 10
MAX_STOPS == 10

\* vehicle_range_km * (battery - min_charge_percent) / 100
remaining_range_of(vehicle_range_km, battery, min_charge_percent) ==
    Quot(vehicle_range_km * (battery - min_charge_percent), 100)

\* the reach check with the slack factor 1.2 of the planner's comment on
\* intermediate stops
can_reach_with_slack(distance_to_end, remaining_range) ==
    distance_to_end * 100 <= remaining_range * 120

\* "If we can reach destination with current battery, we're done"
can_reach_destination(distance_to_end, remaining_range) ==
    distance_to_end <= remaining_range

\* the distance filter with its lower threshold dropped
never_too_close(dist_from_current) == FALSE

\* "Skip if station is too close (< 100km)"
too_close(dist_from_current) == dist_from_current < MIN_STATION_DISTANCE_KM

\* the distance filter with the whole remaining range allowed
too_far_without_margin(dist_from_current, remaining_range) ==
    dist_from_current > remaining_range

\* "Skip if too far": dist_from_current > remaining_range * 0.80
too_far(dist_from_current, remaining_range) ==
    dist_from_current * 100 > remaining_range * SAFETY_RANGE_PERCENT

\* (dist_from_current + dist_to_destination) - direct_distance
detour_of(cur_lat, station_lat, end_lat) ==
    (haversine_distance(cur_lat, station_lat) + haversine_distance(station_lat, end_lat))
        - haversine_distance(cur_lat, end_lat)

\* the detour filter letting every station through
detour_never_too_big(detour) == FALSE

\* "Only consider stations with minimal detour"
detour_too_big(detour) == detour > MAX_DETOUR_KM

progress_score_of(dist_from_current, detour) == (dist_from_current * 10) - (detour * 50)

candidate_of(station, cur_lat, end_lat) ==
    [name |-> station.name, city |-> station.city, latitude |-> station.latitude,
     power_kw |-> station.power_kw, connector_type |-> station.connector_type,
     price_per_kwh |-> station.price_per_kwh,
     distance_from_current |-> haversine_distance(cur_lat, station.latitude),
     distance_to_destination |-> haversine_distance(station.latitude, end_lat),
     detour |-> detour_of(cur_lat, station.latitude, end_lat),
     progress_score |-> progress_score_of(haversine_distance(cur_lat, station.latitude),
                                          detour_of(cur_lat, station.latitude, end_lat))]

\* the for-loop that fills candidate_stations, in catalog order
candidate_stations(stations, cur_lat, end_lat, remaining_range) ==
    LET passes(station) ==
            /\ ~too_close(haversine_distance(cur_lat, station.latitude))
            /\ ~too_far(haversine_distance(cur_lat, station.latitude), remaining_range)
            /\ ~detour_too_big(detour_of(cur_lat, station.latitude, end_lat))
        kept == SelectSeq(stations, passes)
    IN  [i \in 1..Len(kept) |-> candidate_of(kept[i], cur_lat, end_lat)]

\* the maximal element that comes last in the list
last_best_station_of(cands) ==
    LET i == CHOOSE k \in 1..Len(cands) :
                /\ \A j \in 1..Len(cands) : cands[j].progress_score <= cands[k].progress_score
                /\ \A j \in (k + 1)..Len(cands) :
                      cands[j].progress_score < cands[k].progress_score
    IN  cands[i]

\* max(candidate_stations, key=progress_score): the first maximal element
best_station_of(cands) ==
    LET i == CHOOSE k \in 1..Len(cands) :
                /\ \A j \in 1..Len(cands) : cands[j].progress_score <= cands[k].progress_score
                /\ \A j \in 1..(k - 1) : cands[j].progress_score < cands[k].progress_score
    IN  cands[i]

\* the arrival level recorded without the max(..., min_charge_percent)
battery_on_arrival_unclamped(battery_on_arrival, min_charge_percent) == battery_on_arrival

\* battery_on_arrival as the stop records it
battery_on_arrival_of(battery_on_arrival, min_charge_percent) ==
    Max(battery_on_arrival, min_charge_percent)

stop_info_of(best, l, segment_number, req) ==
    LET kwh_needed == Quot(req.battery_capacity_kwh
                            * (req.preferred_charge_percent - l.current_battery), 100)
        charging_power == best.power_kw
        km_to_station == best.distance_from_current
        battery_used == Quot(km_to_station * 100, req.vehicle_range_km)
        battery_on_arrival == l.current_battery - battery_used
    IN  [segment |-> segment_number,
         station_name |-> best.name,
         city |-> best.city,
         latitude |-> best.latitude,
         distance_from_start |-> SumDistanceTraveled(l.stops) + km_to_station,
         distance_traveled |-> km_to_station,
         distance_to_destination |-> best.distance_to_destination,
         battery_on_arrival |-> battery_on_arrival_of(battery_on_arrival,
                                                      req.min_charge_percent),
         battery_after_charge |-> req.preferred_charge_percent,
         kwh_charged |-> kwh_needed,
         charging_power_kw |-> charging_power,
         charging_time_minutes |-> Quot(kwh_needed * 3600, charging_power),
         connector_type |-> best.connector_type,
         price_per_kwh |-> best.price_per_kwh,
         estimated_cost |-> kwh_needed * best.price_per_kwh]

\* the catalog as a planned stop leaves it, had the planner taken the chosen
\* station out of the shared catalog
catalog_without_chosen(df, best_name) == SelectSeq(df, LAMBDA row : row.name # best_name)

\* the catalog as a pass of the loop leaves it: a candidate is a copy
\* ({**station, ...}) of a record get_all_stations built, nothing is written back
catalog_after_stop(df, best_name) == df

\* the battery had the stop left it at the level the vehicle departed with
battery_unchanged_by_stop(l, req) == l.current_battery

\* "Update position and battery for next segment":
\* current_battery = preferred_charge_percent
battery_after_stop(l, req) == req.preferred_charge_percent

\* the locals of _find_optimal_stops before the while-loop
initial_locals(req) ==
    [stops |-> <<>>, current_lat |-> req.start_lat,
     current_battery |-> req.current_battery_percent,
     segment_number |-> 0, exit |-> "none"]

\* one pass of the while-loop with the two safety ceilings given
loop_body(l, stations, req, max_segments, max_stops) ==
    LET segment_number == l.segment_number + 1
        distance_to_end == haversine_distance(l.current_lat, req.end_lat)
        remaining_range == remaining_range_of(req.vehicle_range_km, l.current_battery,
                                              req.min_charge_percent)
        cands == candidate_stations(stations, l.current_lat, req.end_lat, remaining_range)
        best == best_station_of(cands)
        stops2 == Append(l.stops, stop_info_of(best, l, segment_number, req))
    IN  IF can_reach_destination(distance_to_end, remaining_range)
        THEN [l EXCEPT !.segment_number = segment_number, !.exit = "reached"]
        ELSE IF segment_number > max_segments
        THEN [l EXCEPT !.segment_number = segment_number, !.exit = "too_many_segments"]
        ELSE IF cands = <<>>
        THEN [l EXCEPT !.segment_number = segment_number, !.exit = "no_stations"]
        ELSE [stops |-> stops2,
              current_lat |-> best.latitude,
              current_battery |-> battery_after_stop(l, req),
              segment_number |-> segment_number,
              exit |-> IF Len(stops2) >= max_stops THEN "max_stops" ELSE "none"]

\* the loop body without its safety checks
loop_iteration_unbounded(l, stations, req) ==
    loop_body(l, stations, req, 1000, 1000)

\* one pass of the while-loop of _find_optimal_stops
loop_iteration(l, stations, req) ==
    loop_body(l, stations, req, MAX_SEGMENTS, MAX_STOPS)

---------------------------------------------------------------------------
(* Route response builder: RoutePlanningService._create_route_response *)

\* round() to the nearest multiple of step, a tie going to the even multiple
round_half_even(x, step) ==
    LET q == x \div step
        r == x % step
    IN  IF 2 * r < step THEN q * step
        ELSE IF 2 * r > step THEN (q + 1) * step
        ELSE IF q % 2 = 0 THEN q * step ELSE (q + 1) * step

\* round(minutes, 1) of a time held in seconds: a tenth of a minute is 6 s
round_minutes(seconds) == round_half_even(seconds, 6)

\* round(x, 1) of a distance in km and round(x, 2) of an amount in hundredths
\* or of an energy in kWh: the values of the model are whole multiples of the
\* rounding step
round_exact(x) == round_half_even(x, 1)

AVG_SPEED_KMH == 80

TL_PER_UNIT == 30

RECURSIVE SumChargingTimeMinutes(_)
SumChargingTimeMinutes(stops) ==
    IF stops = <<>> THEN 0
    ELSE Head(stops).charging_time_minutes + SumChargingTimeMinutes(Tail(stops))

RECURSIVE SumEstimatedCost(_)
SumEstimatedCost(stops) ==
    IF stops = <<>> THEN 0
    ELSE Head(stops).estimated_cost + SumEstimatedCost(Tail(stops))

RECURSIVE SumKwhCharged(_)
SumKwhCharged(stops) ==
    IF stops = <<>> THEN 0
    ELSE Head(stops).kwh_charged + SumKwhCharged(Tail(stops))

\* driving time taken from the provider whether or not it answered
driving_time_from_provider(total_distance, tomtom_data) ==
    IF tomtom_data # <<>> THEN tomtom_data[1].time_minutes ELSE 0

\* driving time in seconds: the provider's, or distance / 80 km/h
driving_time_of(total_distance, tomtom_data) ==
    IF tomtom_data # <<>> THEN tomtom_data[1].time_minutes
    ELSE Quot(total_distance * 3600, AVG_SPEED_KMH)

traffic_delay_of(tomtom_data) ==
    IF tomtom_data # <<>> THEN tomtom_data[1].traffic_delay_minutes ELSE 0

actual_distance_of(total_distance, tomtom_data) ==
    IF tomtom_data # <<>> THEN tomtom_data[1].distance_km ELSE total_distance

\* the path drawn on the map: the provider's points, or start, stops and end
route_coordinates_of(req, charging_stops, tomtom_data) ==
    LET given == IF tomtom_data # <<>> THEN tomtom_data[1].coordinates
                 ELSE <<req.start_lat, req.end_lat>>
    IN  IF given = <<>>
        THEN <<req.start_lat>>
             \o [i \in 1..Len(charging_stops) |-> charging_stops[i].latitude]
             \o <<req.end_lat>>
        ELSE given

\* the waypoints without the charging stops
waypoints_without_stops(req, charging_stops) ==
    <<[type |-> "start", latitude |-> req.start_lat, name |-> "Start"],
      [type |-> "end", latitude |-> req.end_lat, name |-> "Destination"]>>

waypoints_of(req, charging_stops) ==
    <<[type |-> "start", latitude |-> req.start_lat, name |-> "Start"]>>
    \o [i \in 1..Len(charging_stops) |->
            [type |-> "charging", latitude |-> charging_stops[i].latitude,
             name |-> charging_stops[i].station_name,
             segment |-> charging_stops[i].segment]]
    \o <<[type |-> "end", latitude |-> req.end_lat, name |-> "Destination"]>>

\* the summed charging time of the summary with the last stop left out
total_charging_minutes_without_last(charging_stops) ==
    IF charging_stops = <<>> THEN 0
    ELSE SumChargingTimeMinutes(SubSeq(charging_stops, 1, Len(charging_stops) - 1))

\* total_charging_minutes of the summary
total_charging_minutes_of(charging_stops) == SumChargingTimeMinutes(charging_stops)

\* the dict _create_route_response returns, with its success flag given; the
\* fields of route_summary are held beside the others
route_response_fields(req, charging_stops, message, tomtom_data, success) ==
    LET total_distance == haversine_distance(req.start_lat, req.end_lat)
        driving_time_minutes == driving_time_of(total_distance, tomtom_data)
        total_charging_minutes == total_charging_minutes_of(charging_stops)
        total_time_minutes == driving_time_minutes + total_charging_minutes
        total_charging_cost == SumEstimatedCost(charging_stops)
    IN  [success |-> success,
         message |-> IF message = None
                     THEN "Route calculated successfully with real-time traffic"
                     ELSE message,
         total_distance_km |-> round_exact(actual_distance_of(total_distance, tomtom_data)),
         driving_time_minutes |-> round_minutes(driving_time_minutes),
         traffic_delay_minutes |-> round_minutes(traffic_delay_of(tomtom_data)),
         total_time_minutes |-> round_minutes(total_time_minutes),
         num_charging_stops |-> Len(charging_stops),
         charging_time_minutes |-> round_minutes(total_charging_minutes),
         estimated_cost_tl |-> round_exact(total_charging_cost * TL_PER_UNIT),
         energy_needed_kwh |-> round_exact(SumKwhCharged(charging_stops)),
         vehicle_range_km |-> req.vehicle_range_km,
         with_traffic |-> tomtom_data # <<>>,
         route_coordinates |-> route_coordinates_of(req, charging_stops, tomtom_data),
         charging_stops |-> charging_stops,
         waypoints |-> waypoints_of(req, charging_stops)]

\* the response with success tied to the stop list instead of the constant True
create_route_response_by_stops(req, charging_stops, message, tomtom_data) ==
    route_response_fields(req, charging_stops, message, tomtom_data, charging_stops # <<>>)

create_route_response(req, charging_stops, message, tomtom_data) ==
    route_response_fields(req, charging_stops, message, tomtom_data, TRUE)

\* what get_tomtom_route can return: None (<<>>) when the request fails,
\* times out, is answered with an error status or with no route, or else one
\* route summary (time in seconds), with or without points on its legs
TomTomOutcomes(req) ==
    {<<>>} \cup
    { <<[distance_km |-> haversine_distance(req.start_lat, req.end_lat) + 20,
         time_minutes |-> haversine_distance(req.start_lat, req.end_lat) * 40 + 20,
         traffic_delay_minutes |-> 304,
         coordinates |-> points]>>
      : points \in {<<>>, <<req.start_lat, req.end_lat>>} }

---------------------------------------------------------------------------
(* Route segmenter: NavigationService.calculate_base_route *)

SEGMENT_LENGTH_KM == 100

\* max(2, int(distance_km / 100))
num_segments_of(distance_km) == Max(2, distance_km \div SEGMENT_LENGTH_KM)

\* segment i (from 0) of the straight line from start to destination
segment_of(start, destination, i) ==
    LET distance_km == haversine_distance(start, destination)
        n == num_segments_of(distance_km)
    IN  [segment_id |-> i,
         start |-> start + Quot((destination - start) * i, n),
         end |-> start + Quot((destination - start) * (i + 1), n),
         distance_km |-> Quot(distance_km, n),
         elevation_gain_m |-> Max(0, ((i % 3) - 1) * 100),
         avg_speed_kmh |-> 80]

calculate_base_route(start, destination) ==
    [start |-> start,
     destination |-> destination,
     total_distance_km |-> haversine_distance(start, destination),
     segments |-> [k \in 1..num_segments_of(haversine_distance(start, destination))
                     |-> segment_of(start, destination, k - 1)]]

---------------------------------------------------------------------------
(* Station scorer and lookup: ChargingService *)

\* mock_stations of _get_nearby_stations with the distance_km it adds;
\* the three offsets put them 1570 m, 790 m and 1600 m from the location
mock_stations(location) ==
    <<[id |-> "tesla_sc_001", name |-> "Tesla Supercharger - Mall", network |-> "Tesla",
       latitude |-> location, connector_types |-> {"Tesla", "CCS1"},
       power_kw |-> 250, stalls |-> 12, available_stalls |-> 8, cost_per_kwh |-> 28,
       amenities |-> {"Shopping", "Restaurant", "WiFi"}, rating |-> 45,
       wait_time_minutes |-> 0, distance_km |-> 1570],
      [id |-> "ea_001", name |-> "Electrify America - Highway",
       network |-> "Electrify America",
       latitude |-> location, connector_types |-> {"CCS1", "CHAdeMO"},
       power_kw |-> 350, stalls |-> 8, available_stalls |-> 6, cost_per_kwh |-> 31,
       amenities |-> {"Convenience Store", "WiFi"}, rating |-> 42,
       wait_time_minutes |-> 5, distance_km |-> 790],
      [id |-> "evgo_001", name |-> "EVgo Fast Charge", network |-> "EVgo",
       latitude |-> location, connector_types |-> {"CCS1", "CHAdeMO"},
       power_kw |-> 100, stalls |-> 4, available_stalls |-> 2, cost_per_kwh |-> 25,
       amenities |-> {"Grocery Store"}, rating |-> 38,
       wait_time_minutes |-> 15, distance_km |-> 1600]>>

\* _get_nearby_stations: the mock stations within radius_km
get_nearby_stations(location, radius_km) ==
    SelectSeq(mock_stations(location), LAMBDA st : st.distance_km <= radius_km * 1000)

\* the filter keeping every station, whatever its connectors
keep_every_station(stations, vehicle_specs) == stations

\* _filter_compatible_stations: any station connector among the vehicle's
filter_compatible_stations(stations, vehicle_specs) ==
    SelectSeq(stations,
              LAMBDA st : st.connector_types \cap vehicle_specs.supported_connectors # {})

Min(a, b) == IF a <= b THEN a ELSE b

\* the score _calculate_station_score adds up before its cap, in units of
\* 1/1050; preferences is <<>> for None and <<dict>> otherwise
raw_station_score(station, vehicle_specs, preferences) ==
    LET effective_power == Min(station.power_kw, vehicle_specs.max_charging_power_kw)
        base == station.rating * 4 * 105
                  + effective_power * 75
                  + Quot(station.available_stalls * 20 * 1050, station.stalls)
                  + Max(0, 15 - station.wait_time_minutes) * 1050
                  + Max(0, 20 * 1050 - Quot(station.distance_km * 21, 10))
        bonus == IF preferences = <<>> THEN 0
                 ELSE (IF station.network \in preferences[1].preferred_charging_networks
                       THEN 10 * 1050 ELSE 0)
                    + (IF preferences[1].prefer_fast_charging /\ station.power_kw >= 150
                       THEN 5 * 1050 ELSE 0)
                    + Cardinality(preferences[1].preferred_amenities \cap station.amenities)
                        * 2 * 1050
    IN  base + bonus

\* the score returned without min(100.0, score)
calculate_station_score_uncapped(station, vehicle_specs, preferences) ==
    raw_station_score(station, vehicle_specs, preferences)

\* _calculate_station_score, in units of 1/1050
calculate_station_score(station, vehicle_specs, preferences) ==
    Min(100 * 1050, raw_station_score(station, vehicle_specs, preferences))

\* positions of s ordered by descending score, equal scores in list order
\* (list.sort is stable)
RECURSIVE sorted_by_score(_, _, _)
sorted_by_score(stations, vehicle_specs, preferences) ==
    IF stations = <<>> THEN <<>>
    ELSE LET sc(k) == calculate_station_score(stations[k], vehicle_specs, preferences)
             i == CHOOSE k \in 1..Len(stations) :
                     /\ \A j \in 1..Len(stations) : sc(j) <= sc(k)
                     /\ \A j \in 1..(k - 1) : sc(j) < sc(k)
             rest == [k \in 1..(Len(stations) - 1) |->
                         IF k < i THEN stations[k] ELSE stations[k + 1]]
         IN  <<stations[i]>> \o sorted_by_score(rest, vehicle_specs, preferences)

\* find_best_charging_station: <<>> for None, or <<station>> with the head of
\* the ranked compatible list
find_best_charging_station(location, vehicle_specs, max_detour_km, preferences) ==
    LET compatible == filter_compatible_stations(
                          get_nearby_stations(location, max_detour_km), vehicle_specs)
    IN  IF compatible = <<>> THEN <<>>
        ELSE <<Head(sorted_by_score(compatible, vehicle_specs, preferences))>>

---------------------------------------------------------------------------
(* Detailed planner: RouteOptimizerAgent *)

\* 0.20 and 0.80 of the battery, in units of 1/10000
SAFETY_BUFFER_PERCENTAGE == 2000
PREFERRED_CHARGING_LEVEL == 8000
MAX_CHARGING_DETOUR_KM == 10

\* _calculate_segment_energy, in units of 1/10000 kWh
calculate_segment_energy(segment, vehicle_specs) ==
    LET base_consumption ==
            segment.distance_km * vehicle_specs.energy_consumption_kwh_per_100km * 100
        \* base * (1.0 + elevation_gain_m / 1000 * 0.1)
        with_elevation ==
            base_consumption + Quot(base_consumption * segment.elevation_gain_m, 10000)
        \* ... * (1.0 + max(0, avg_speed_kmh - 80) / 100 * 0.1)
    IN  with_elevation + Quot(with_elevation * Max(0, segment.avg_speed_kmh - 80), 1000)

\* needs_charging of _analyze_energy_requirements:
\* base * 1.1 * 1.05 > capacity * level - capacity * 0.20
needs_charging(base_route, vehicle_specs, current_battery_level) ==
    LET base_consumption ==
            base_route.total_distance_km
              * vehicle_specs.energy_consumption_kwh_per_100km * 100
        usable_energy ==
            vehicle_specs.battery_capacity_kwh * current_battery_level
              - vehicle_specs.battery_capacity_kwh * SAFETY_BUFFER_PERCENTAGE
    IN  base_consumption * 1155 > usable_energy * 1000

\* _calculate_charging_time, in minutes (int() truncates)
calculate_charging_time(charge_needed, vehicle_specs, charging_station) ==
    LET energy_to_add == charge_needed * vehicle_specs.battery_capacity_kwh
        charging_power == Min(charging_station.power_kw,
                              vehicle_specs.max_charging_power_kw)
        num == energy_to_add * 60 * 100
        den == charging_power * 85 * 10000
    IN  IF num >= 0 THEN num \div den ELSE 0 - ((0 - num) \div den)

\* the keys the ChargingStop(...) call reads from the station dict
CHARGING_STOP_KEYS == {"id", "name", "location", "connector_type", "power_kw", "cost_per_kwh"}

charging_stop_of(station, charging_time, charge_needed, current_battery, vehicle_specs) ==
    [station_id |-> station.id,
     station_name |-> station.name,
     location |-> station.location,
     connector_type |-> station.connector_type,
     charging_power_kw |-> station.power_kw,
     estimated_charging_time_minutes |-> charging_time,
     estimated_cost |-> station.cost_per_kwh * charge_needed
                          * vehicle_specs.battery_capacity_kwh,
     battery_level_before |-> current_battery,
     battery_level_after |-> PREFERRED_CHARGING_LEVEL]

\* the level after a driven segment: max(0, current_battery - consumption)
battery_after_segment(current_battery, battery_consumption) ==
    Max(0, current_battery - battery_consumption)

opt_idle ==
    [pc |-> "idle", base_route |-> None, i |-> 0, current_battery |-> 0,
     current_position |-> 0, charging_stops |-> <<>>]

\* one pass of the for-loop of _plan_charging_stops over segment o.i + 1;
\* pc "raised" when building the ChargingStop raises KeyError
plan_segment(o, req) ==
    LET segment == o.base_route.segments[o.i + 1]
        battery_capacity == req.vehicle_specs.battery_capacity_kwh
        segment_energy == calculate_segment_energy(segment, req.vehicle_specs)
        energy_needed == segment_energy + battery_capacity * SAFETY_BUFFER_PERCENTAGE
        available_energy == battery_capacity * o.current_battery
        found ==
            find_best_charging_station(segment.start, req.vehicle_specs,
                                       MAX_CHARGING_DETOUR_KM, req.preferences)
        charging_station == found[1]
        charge_needed == PREFERRED_CHARGING_LEVEL - o.current_battery
        stops_here == available_energy < energy_needed /\ found # <<>>
        battery_before_drive ==
            IF stops_here THEN PREFERRED_CHARGING_LEVEL ELSE o.current_battery
        last == o.i + 1 = Len(o.base_route.segments)
    IN  IF stops_here /\ ~(CHARGING_STOP_KEYS \subseteq DOMAIN charging_station)
        THEN [o EXCEPT !.pc = "raised"]
        ELSE [o EXCEPT
                !.charging_stops =
                    IF stops_here
                    THEN Append(@, charging_stop_of(charging_station,
                                     calculate_charging_time(charge_needed,
                                         req.vehicle_specs, charging_station),
                                     charge_needed, o.current_battery, req.vehicle_specs))
                    ELSE @,
                !.current_battery =
                    battery_after_segment(battery_before_drive,
                                          Quot(segment_energy, battery_capacity)),
                !.current_position = @ + segment.distance_km,
                !.i = @ + 1,
                !.pc = IF last THEN "finish" ELSE "plan"]

\* _is_charging_stop_near_segment, on the meridian
is_charging_stop_near_segment(charging_stop, segment) ==
    haversine_distance(charging_stop.location, segment.start) <= MAX_CHARGING_DETOUR_KM

\* _create_optimized_waypoints from segment k on, charging stop idx next
RECURSIVE create_optimized_waypoints(_, _, _, _)
create_optimized_waypoints(segments, charging_stops, k, idx) ==
    IF k > Len(segments)
    THEN <<[latitude |-> segments[Len(segments)].end, waypoint_type |-> "destination",
            estimated_charging_time |-> None, estimated_battery_level |-> None,
            distance_to_next |-> 0]>>
    ELSE LET nav == [latitude |-> segments[k].start, waypoint_type |-> "navigation",
                     estimated_charging_time |-> None, estimated_battery_level |-> None,
                     distance_to_next |-> segments[k].distance_km]
             near == /\ idx <= Len(charging_stops)
                     /\ is_charging_stop_near_segment(charging_stops[idx], segments[k])
         IN  IF near
             THEN <<nav,
                    [latitude |-> charging_stops[idx].location,
                     waypoint_type |-> "charging",
                     estimated_charging_time |->
                         charging_stops[idx].estimated_charging_time_minutes,
                     estimated_battery_level |-> charging_stops[idx].battery_level_after,
                     distance_to_next |-> 0]>>
                  \o create_optimized_waypoints(segments, charging_stops, k + 1, idx + 1)
             ELSE <<nav>> \o create_optimized_waypoints(segments, charging_stops, k + 1, idx)

RECURSIVE SumDistanceToNext(_)
SumDistanceToNext(waypoints) ==
    IF waypoints = <<>> THEN 0
    ELSE Head(waypoints).distance_to_next + SumDistanceToNext(Tail(waypoints))

RECURSIVE SumChargingTime(_)
SumChargingTime(waypoints) ==
    IF waypoints = <<>> THEN 0
    ELSE (IF Head(waypoints).waypoint_type = "charging"
          THEN Head(waypoints).estimated_charging_time ELSE 0)
         + SumChargingTime(Tail(waypoints))

\* final_battery of _calculate_route_metrics:
\* max(0, initial_battery - total_energy / battery_capacity)
final_battery_of(total_distance, vehicle_specs, initial_battery) ==
    Max(0, initial_battery
             - Quot(total_distance * vehicle_specs.energy_consumption_kwh_per_100km * 100,
                    vehicle_specs.battery_capacity_kwh))

\* the RouteResponse of optimize_route (insights, the text a language model
\* returns, left out)
route_response_of(waypoints, charging_stops, req) ==
    LET total_distance == SumDistanceToNext(waypoints)
        total_time == SumChargingTime(waypoints)
    IN  [waypoints |-> waypoints,
         total_distance_km |-> total_distance,
         estimated_time_minutes |-> total_time + 120,
         estimated_energy_consumption_kwh |->
             total_distance * req.vehicle_specs.energy_consumption_kwh_per_100km * 100,
         charging_stops |-> charging_stops,
         final_battery_level |->
             final_battery_of(total_distance, req.vehicle_specs, req.current_battery_level),
         route_efficiency_score |->
             Min(100, Quot(total_distance, Max(1, total_time \div 60)) * 10),
         preferences_applied |-> req.preferences]

---------------------------------------------------------------------------
(* Inputs *)

PowerAt(k) == IF k % 3 = 0 THEN 25 ELSE IF k % 3 = 1 THEN 50 ELSE 150

Row(id, lat) == [name |-> id, city |-> "city", latitude |-> lat, power_kw |-> PowerAt(id)]

\* n stations, 100 km apart, north of the start
Grid(n) == [k \in 1..n |-> Row(k, 100 * k)]

Reverse(s) == [i \in 1..Len(s) |-> s[Len(s) + 1 - i]]

Catalogs ==
    UNION {
        { Grid(n),
          Reverse(Grid(n)),
          SelectSeq(Grid(n), LAMBDA row : row.name # 3),
          Grid(n) \o <<Row(20, 0 - 120)>>,
          Grid(n) \o <<Row(21, 200), Row(22, 220)>>,
          [i \in 1..n |-> [Grid(n)[i] EXCEPT !.power_kw = 32]],
          Grid(n) \o [k \in 1..n |-> Row(30 + k, 100 * k)] }
        : n \in 0..MaxStations }

Vehicles ==
    { [vehicle_range_km |-> 400, battery_capacity_kwh |-> 60,
       supported_connectors |-> {"CCS1", "CCS2"}],
      [vehicle_range_km |-> 2000, battery_capacity_kwh |-> 100,
       supported_connectors |-> {"Tesla", "CCS1"}],
      [vehicle_range_km |-> 0, battery_capacity_kwh |-> 0,
       supported_connectors |-> {"CCS1"}],
      [vehicle_range_km |-> 0 - 400, battery_capacity_kwh |-> 0 - 60,
       supported_connectors |-> {"CHAdeMO", "Type2"}] }

Destinations == {80, 260, 500, 1150, 1400, 1500}

BatteryLevels == {10, 50, 70, 90}

\* (min_charge_percent, preferred_charge_percent)
ChargePolicies == {<<20, 80>>, <<80, 20>>}

---------------------------------------------------------------------------
(* The state machine *)

Init ==
    /\ stations_df \in Catalogs
    /\ \E v \in Vehicles, e \in Destinations, b \in BatteryLevels, p \in ChargePolicies :
          /\ request = [start_lat |-> 0, end_lat |-> e,
                        vehicle_range_km |-> v.vehicle_range_km,
                        battery_capacity_kwh |-> v.battery_capacity_kwh,
                        current_battery_percent |-> b,
                        min_charge_percent |-> p[1],
                        preferred_charge_percent |-> p[2]]
          /\ vehicle_connectors = v.supported_connectors
    /\ other_request = request
    /\ pc = [r \in Runs |-> "idle"]
    /\ all_stations = [r \in Runs |-> <<>>]
    /\ loc = [r \in Runs |-> initial_locals(request)]
    /\ pending = [r \in Runs |-> [charging_stops |-> <<>>, message |-> None, tomtom_data |-> <<>>]]
    /\ response = [r \in Runs |-> None]
    /\ opt_request = None
    /\ opt = opt_idle
    /\ opt_response = None
    /\ power_query = no_power_query
    /\ scored = nothing_scored
    /\ best_lookup = no_lookup

\* calls are made one after the other
Turn(r) == \A q \in Runs : q < r => pc[q] = "done"

\* calculate_charging_stops(req) up to the call of _find_optimal_stops
CallStep(r, req) ==
    /\ pc[r] = "idle"
    /\ LET total_distance == haversine_distance(req.start_lat, req.end_lat)
           usable_range == remaining_range_of(req.vehicle_range_km,
                                              req.current_battery_percent,
                                              req.min_charge_percent)
           stations == get_all_stations(stations_df)
       IN  /\ all_stations' = [all_stations EXCEPT ![r] = stations]
           /\ loc' = [loc EXCEPT ![r] = initial_locals(req)]
           /\ IF stations = <<>>
              THEN /\ pending' = [pending EXCEPT ![r] =
                          [charging_stops |-> <<>>,
                           message |-> "No charging stations available",
                           tomtom_data |-> <<>>]]
                   /\ pc' = [pc EXCEPT ![r] = "respond"]
              ELSE IF total_distance <= usable_range
              THEN /\ pending' = [pending EXCEPT ![r] =
                          [charging_stops |-> <<>>,
                           message |-> "No charging stops needed - route calculated with real-time traffic",
                           tomtom_data |-> <<>>]]
                   /\ pc' = [pc EXCEPT ![r] = "respond"]
              ELSE /\ pending' = pending
                   /\ pc' = [pc EXCEPT ![r] = "loop"]
    /\ UNCHANGED <<stations_df, request, other_request, vehicle_connectors, response,
                   opt_vars, query_vars>>

\* one pass of the while-loop; on a break, _find_optimal_stops returns its stops
IterateStep(r, req) ==
    /\ pc[r] = "loop"
    /\ LET l == loop_iteration(loc[r], all_stations[r], req)
       IN  /\ loc' = [loc EXCEPT ![r] = l]
           /\ stations_df' =
                 IF Len(l.stops) > Len(loc[r].stops)
                 THEN catalog_after_stop(stations_df, l.stops[Len(l.stops)].station_name)
                 ELSE stations_df
           /\ IF l.exit = "none"
              THEN UNCHANGED <<pc, pending>>
              ELSE /\ pc' = [pc EXCEPT ![r] = "respond"]
                   /\ pending' = [pending EXCEPT ![r] =
                          [charging_stops |-> l.stops, message |-> None,
                           tomtom_data |-> <<>>]]
    /\ UNCHANGED <<request, other_request, vehicle_connectors, all_stations, response,
                   opt_vars, query_vars>>

\* get_tomtom_route (an external call) and _create_route_response
RespondStep(r, req) ==
    /\ pc[r] = "respond"
    /\ \E tomtom_data \in TomTomOutcomes(req) :
          /\ pending' = [pending EXCEPT ![r].tomtom_data = tomtom_data]
          /\ response' = [response EXCEPT ![r] =
                create_route_response(req, pending[r].charging_stops,
                                      pending[r].message, tomtom_data)]
    /\ pc' = [pc EXCEPT ![r] = "done"]
    /\ UNCHANGED <<stations_df, request, other_request, vehicle_connectors, all_stations,
                   loc, opt_vars, query_vars>>

\* the steps of a call made on the request, one call after the other
Call(r) == Turn(r) /\ CallStep(r, request)

Iterate(r) == Turn(r) /\ IterateStep(r, request)

Respond(r) == Turn(r) /\ RespondStep(r, request)

Next == \E r \in Runs : Call(r) \/ Iterate(r) \/ Respond(r)

Spec == Init /\ [][Next]_vars

---------------------------------------------------------------------------
(* Two callers planning at the same time over the shared catalog *)

\* the catalogs the two callers share
ConcCatalogs == {Grid(n) : n \in {0, 1, 4, MaxStations}} \cup {Reverse(Grid(5))}

\* the requests of the two callers: any vehicle, destination and battery level
ConcRequests ==
    { [start_lat |-> 0, end_lat |-> e,
       vehicle_range_km |-> v.vehicle_range_km,
       battery_capacity_kwh |-> v.battery_capacity_kwh,
       current_battery_percent |-> b,
       min_charge_percent |-> 20,
       preferred_charge_percent |-> 80]
      : v \in Vehicles, e \in Destinations, b \in BatteryLevels }

InitConc ==
    /\ stations_df \in ConcCatalogs
    /\ request \in ConcRequests
    /\ other_request \in ConcRequests
    /\ vehicle_connectors = {}
    /\ pc = [r \in Runs |-> "idle"]
    /\ all_stations = [r \in Runs |-> <<>>]
    /\ loc = [r \in Runs |-> initial_locals(request)]
    /\ pending = [r \in Runs |-> [charging_stops |-> <<>>, message |-> None, tomtom_data |-> <<>>]]
    /\ response = [r \in Runs |-> None]
    /\ opt_request = None
    /\ opt = opt_idle
    /\ opt_response = None
    /\ power_query = no_power_query
    /\ scored = nothing_scored
    /\ best_lookup = no_lookup

\* the arguments of call r: the first caller's or the second caller's
request_of(r) == IF r = 1 THEN request ELSE other_request

CallConc(r) == CallStep(r, request_of(r))

IterateConc(r) == IterateStep(r, request_of(r))

RespondConc(r) == RespondStep(r, request_of(r))

\* the calls run in any interleaving of their steps
NextConc == \E r \in Runs : CallConc(r) \/ IterateConc(r) \/ RespondConc(r)

SpecConc == InitConc /\ [][NextConc]_vars

\* _find_optimal_stops run to its break on its own: the stop list it returns
RECURSIVE find_optimal_stops(_, _, _)
find_optimal_stops(l, stations, req) ==
    LET l2 == loop_iteration(l, stations, req)
    IN  IF l2.exit # "none" THEN l2.stops
        ELSE find_optimal_stops(l2, stations, req)

\* the stop list of calculate_charging_stops(req) run on its own over catalog df
calculate_charging_stops(req, df) ==
    LET stations == get_all_stations(df)
    IN  IF stations = <<>> THEN <<>>
        ELSE IF haversine_distance(req.start_lat, req.end_lat)
                  <= remaining_range_of(req.vehicle_range_km, req.current_battery_percent,
                                        req.min_charge_percent)
        THEN <<>>
        ELSE find_optimal_stops(initial_locals(req), stations, req)

---------------------------------------------------------------------------
(* Queries on the catalog *)

\* the limits of a power-range query; 0 and 1000 are the defaults
PowerLimits == {0, 30, 50, 100, 150, 1000}

InitQuery ==
    /\ stations_df \in Catalogs
    /\ request = [start_lat |-> 0, end_lat |-> 0, vehicle_range_km |-> 400,
                  battery_capacity_kwh |-> 60, current_battery_percent |-> 80,
                  min_charge_percent |-> 20, preferred_charge_percent |-> 80]
    /\ other_request = request
    /\ vehicle_connectors = {}
    /\ pc = [r \in Runs |-> "idle"]
    /\ all_stations = [r \in Runs |-> <<>>]
    /\ loc = [r \in Runs |-> initial_locals(request)]
    /\ pending = [r \in Runs |-> [charging_stops |-> <<>>, message |-> None, tomtom_data |-> <<>>]]
    /\ response = [r \in Runs |-> None]
    /\ opt_request = None
    /\ opt = opt_idle
    /\ opt_response = None
    /\ power_query = no_power_query
    /\ scored = nothing_scored
    /\ best_lookup = no_lookup

\* a call get_stations_by_power(min_power, max_power)
GetStationsByPower ==
    /\ \E min_power \in PowerLimits, max_power \in PowerLimits :
          power_query' = [called |-> TRUE, min_power |-> min_power,
                          max_power |-> max_power,
                          result |-> get_stations_by_power(stations_df, min_power,
                                                           max_power)]
    /\ UNCHANGED <<simple_vars, opt_vars, scored, best_lookup>>

NextQuery == GetStationsByPower

SpecQuery == InitQuery /\ [][NextQuery]_vars

---------------------------------------------------------------------------
(* The detailed planner as a state machine *)

OptVehicles ==
    { [battery_capacity_kwh |-> 100, energy_consumption_kwh_per_100km |-> 20,
       max_charging_power_kw |-> 250, supported_connectors |-> {"Tesla", "CCS1"}],
      [battery_capacity_kwh |-> 50, energy_consumption_kwh_per_100km |-> 15,
       max_charging_power_kw |-> 150, supported_connectors |-> {"CCS2"}],
      [battery_capacity_kwh |-> 50, energy_consumption_kwh_per_100km |-> 20,
       max_charging_power_kw |-> 50, supported_connectors |-> {"CHAdeMO", "Type2"}] }

OptDestinations == {60, 180, 200, 260, 300, 400, 600, 900}

OptBatteryLevels == {1500, 3000, 5000, 9000, 10000}

OptPreferences ==
    { <<>>,
      <<[preferred_charging_networks |-> {"EVgo"}, prefer_fast_charging |-> TRUE,
         preferred_amenities |-> {"WiFi"}]>> }

InitOpt ==
    /\ stations_df = <<>>
    /\ request = [start_lat |-> 0, end_lat |-> 0, vehicle_range_km |-> 400,
                  battery_capacity_kwh |-> 60, current_battery_percent |-> 80,
                  min_charge_percent |-> 20, preferred_charge_percent |-> 80]
    /\ other_request = request
    /\ vehicle_connectors = {}
    /\ pc = [r \in Runs |-> "idle"]
    /\ all_stations = [r \in Runs |-> <<>>]
    /\ loc = [r \in Runs |-> initial_locals(request)]
    /\ pending = [r \in Runs |-> [charging_stops |-> <<>>, message |-> None, tomtom_data |-> <<>>]]
    /\ response = [r \in Runs |-> None]
    /\ \E v \in OptVehicles, d \in OptDestinations, b \in OptBatteryLevels,
          p \in OptPreferences :
          opt_request = [start |-> 0, destination |-> d, vehicle_specs |-> v,
                         current_battery_level |-> b, preferences |-> p]
    /\ opt = opt_idle
    /\ opt_response = None
    /\ power_query = no_power_query
    /\ scored = nothing_scored
    /\ best_lookup = no_lookup

\* optimize_route, steps 1 to 3: the base route, the energy analysis and the
\* entry into _plan_charging_stops
OptBaseRoute ==
    /\ opt.pc = "idle"
    /\ LET base_route == calculate_base_route(opt_request.start, opt_request.destination)
       IN  opt' = [opt EXCEPT
                     !.base_route = base_route,
                     !.current_battery = opt_request.current_battery_level,
                     !.pc = IF needs_charging(base_route, opt_request.vehicle_specs,
                                              opt_request.current_battery_level)
                            THEN "plan" ELSE "finish"]
    /\ UNCHANGED <<simple_vars, opt_request, opt_response, query_vars>>

\* one segment of _plan_charging_stops
OptSegment ==
    /\ opt.pc = "plan"
    /\ opt' = plan_segment(opt, opt_request)
    /\ UNCHANGED <<simple_vars, opt_request, opt_response, query_vars>>

\* optimize_route, steps 4 to 7: waypoints, metrics and the response
OptFinish ==
    /\ opt.pc = "finish"
    /\ opt_response' =
          route_response_of(
              create_optimized_waypoints(opt.base_route.segments, opt.charging_stops, 1, 1),
              opt.charging_stops, opt_request)
    /\ opt' = [opt EXCEPT !.pc = "done"]
    /\ UNCHANGED <<simple_vars, opt_request, query_vars>>

NextOpt == OptBaseRoute \/ OptSegment \/ OptFinish

SpecOpt == InitOpt /\ [][NextOpt]_vars

---------------------------------------------------------------------------
(* Scoring of stations *)

\* station records over the ranges of their fields: rating 0 to 5.0, power 0
\* to 350 kW, no or all stalls free, no or a long wait, at the location or
\* up to 20 km away; and the three mock stations
ScoreStations ==
    { [id |-> "st", name |-> "Station", network |-> n, latitude |-> 0,
       connector_types |-> {"CCS1"}, power_kw |-> p, stalls |-> 4,
       available_stalls |-> a, cost_per_kwh |-> 30, amenities |-> {"WiFi", "Restaurant"},
       rating |-> rt, wait_time_minutes |-> w, distance_km |-> d]
      : n \in {"Tesla", "EVgo"}, p \in {0, 50, 350}, a \in {0, 4}, rt \in {0, 25, 50},
        w \in {0, 30}, d \in {0, 5000, 20000} }
    \cup { mock_stations(0)[k] : k \in 1..3 }

ScoreVehicles ==
    OptVehicles \cup
    { [battery_capacity_kwh |-> 100, energy_consumption_kwh_per_100km |-> 20,
       max_charging_power_kw |-> 350, supported_connectors |-> {"CCS1"}] }

ScorePreferences ==
    OptPreferences \cup
    { <<[preferred_charging_networks |-> {"Tesla"}, prefer_fast_charging |-> TRUE,
         preferred_amenities |-> {"Shopping", "Restaurant", "WiFi"}]>>,
      <<[preferred_charging_networks |-> {}, prefer_fast_charging |-> FALSE,
         preferred_amenities |-> {}]>> }

InitScore ==
    /\ stations_df = <<>>
    /\ request = [start_lat |-> 0, end_lat |-> 0, vehicle_range_km |-> 400,
                  battery_capacity_kwh |-> 60, current_battery_percent |-> 80,
                  min_charge_percent |-> 20, preferred_charge_percent |-> 80]
    /\ other_request = request
    /\ vehicle_connectors = {}
    /\ pc = [r \in Runs |-> "idle"]
    /\ all_stations = [r \in Runs |-> <<>>]
    /\ loc = [r \in Runs |-> initial_locals(request)]
    /\ pending = [r \in Runs |-> [charging_stops |-> <<>>, message |-> None, tomtom_data |-> <<>>]]
    /\ response = [r \in Runs |-> None]
    /\ opt_request = None
    /\ opt = opt_idle
    /\ opt_response = None
    /\ power_query = no_power_query
    /\ \E station \in ScoreStations, vehicle_specs \in ScoreVehicles,
          preferences \in ScorePreferences :
          scored = [called |-> FALSE, station |-> station,
                    vehicle_specs |-> vehicle_specs, preferences |-> preferences,
                    score |-> 0]
    /\ best_lookup = no_lookup

\* the call _calculate_station_score(station, vehicle_specs, preferences)
ScoreStation ==
    /\ ~scored.called
    /\ scored' = [scored EXCEPT
                    !.called = TRUE,
                    !.score = calculate_station_score(scored.station,
                                                      scored.vehicle_specs,
                                                      scored.preferences)]
    /\ UNCHANGED <<simple_vars, opt_vars, power_query, best_lookup>>

NextScore == ScoreStation

SpecScore == InitScore /\ [][NextScore]_vars

---------------------------------------------------------------------------
(* Lookup of the best station near a location *)

LookupLocations == {0, 100}

\* search radii in km: none, one, two or all three of the mock stations
LookupRadii == {0, 1, 2, 10}

LookupVehicles ==
    ScoreVehicles \cup
    { [battery_capacity_kwh |-> 100, energy_consumption_kwh_per_100km |-> 20,
       max_charging_power_kw |-> 350, supported_connectors |-> {"Tesla", "CHAdeMO"}],
      [battery_capacity_kwh |-> 100, energy_consumption_kwh_per_100km |-> 20,
       max_charging_power_kw |-> 350, supported_connectors |-> {}] }

LookupPreferences ==
    ScorePreferences \cup
    { <<[preferred_charging_networks |-> {"Tesla", "Electrify America"},
         prefer_fast_charging |-> TRUE,
         preferred_amenities |-> {"Shopping", "Restaurant", "WiFi"}]>> }

InitLookup ==
    /\ stations_df = <<>>
    /\ request = [start_lat |-> 0, end_lat |-> 0, vehicle_range_km |-> 400,
                  battery_capacity_kwh |-> 60, current_battery_percent |-> 80,
                  min_charge_percent |-> 20, preferred_charge_percent |-> 80]
    /\ other_request = request
    /\ vehicle_connectors = {}
    /\ pc = [r \in Runs |-> "idle"]
    /\ all_stations = [r \in Runs |-> <<>>]
    /\ loc = [r \in Runs |-> initial_locals(request)]
    /\ pending = [r \in Runs |-> [charging_stops |-> <<>>, message |-> None, tomtom_data |-> <<>>]]
    /\ response = [r \in Runs |-> None]
    /\ opt_request = None
    /\ opt = opt_idle
    /\ opt_response = None
    /\ power_query = no_power_query
    /\ scored = nothing_scored
    /\ \E location \in LookupLocations, vehicle_specs \in LookupVehicles,
          max_detour_km \in LookupRadii, preferences \in LookupPreferences :
          best_lookup = [called |-> FALSE, location |-> location,
                         vehicle_specs |-> vehicle_specs,
                         max_detour_km |-> max_detour_km,
                         preferences |-> preferences, result |-> <<>>]

\* the call find_best_charging_station(location, vehicle_specs, max_detour_km,
\* preferences)
FindBestChargingStation ==
    /\ ~best_lookup.called
    /\ best_lookup' = [best_lookup EXCEPT
                         !.called = TRUE,
                         !.result = find_best_charging_station(
                                        best_lookup.location, best_lookup.vehicle_specs,
                                        best_lookup.max_detour_km,
                                        best_lookup.preferences)]
    /\ UNCHANGED <<simple_vars, opt_vars, power_query, scored>>

NextLookup == FindBestChargingStation

SpecLookup == InitLookup /\ [][NextLookup]_vars

---------------------------------------------------------------------------
(* Properties of the simple planner *)

Done(r) == pc[r] = "done"

\* the trip is within the usable range of the request
TripWithinRange ==
    haversine_distance(request.start_lat, request.end_lat) * 100
        <= request.vehicle_range_km
            * (request.current_battery_percent - request.min_charge_percent)

\* from where the loop of call r stands, the destination is out of reach
DestinationBeyondRange(r) ==
    haversine_distance(loc[r].current_lat, request.end_lat) * 100
        > request.vehicle_range_km * (loc[r].current_battery - request.min_charge_percent)

SuccessMessage == "Route calculated successfully with real-time traffic"

\* a request a client would send: a positive range and capacity, and
\* min_charge_percent <= current_battery_percent, min < preferred
WellFormedRequest ==
    /\ request.vehicle_range_km > 0
    /\ request.battery_capacity_kwh > 0
    /\ request.min_charge_percent <= request.current_battery_percent
    /\ request.min_charge_percent < request.preferred_charge_percent

\* C1: the while-loop of _find_optimal_stops leaves through a break after at
\* most 11 passes, for every catalog (the empty one too) and every request:
\* the pass counter never exceeds 11, a loop still running has made fewer
\* than 11 passes, and a call that left the loop left it through a break.
C1_LoopTerminates ==
    /\ \A r \in Runs :
          /\ loc[r].segment_number <= 11
          /\ pc[r] = "loop" => (loc[r].segment_number < 11 /\ loc[r].exit = "none")
          /\ (pc[r] \in {"respond", "done"} /\ loc[r].segment_number > 0)
                => loc[r].exit \in {"reached", "too_many_segments", "no_stations", "max_stops"}
    /\ loop_iteration(initial_locals(request), <<>>, request).exit \in {"reached", "no_stations"}

\* a call over a non-empty catalog that made ten passes and left through a break
C1_Witness ==
    /\ Done(1) /\ loc[1].segment_number = 10 /\ loc[1].exit = "max_stops"
    /\ stations_df # <<>>

\* C2 (as claimed, for well-formed requests): when the loop ends for want of a
\* candidate or at a ceiling with the destination still out of reach, the
\* response reports the plan as infeasible (success false, or a message other
\* than the success message) and carries the stops placed so far.
C2_InfeasibleReported ==
    \A r \in Runs :
        (/\ Done(r)
         /\ WellFormedRequest
         /\ loc[r].exit \in {"no_stations", "too_many_segments", "max_stops"}
         /\ DestinationBeyondRange(r))
        => /\ response[r].charging_stops = loc[r].stops
           /\ (response[r].success = FALSE \/ response[r].message # SuccessMessage)

\* C3: a trip within the usable range is answered with success, no stops and
\* a stop count of 0, whatever the catalog holds.
C3_NoChargingNeeded ==
    \A r \in Runs :
        (Done(r) /\ TripWithinRange)
        => /\ response[r].success = TRUE
           /\ response[r].charging_stops = <<>>
           /\ response[r].num_charging_stops = 0

\* a trip within range answered over a catalog that has stations on the way
C3_Witness ==
    /\ Done(1) /\ TripWithinRange
    /\ Len(stations_df) >= 2
    /\ haversine_distance(request.start_lat, request.end_lat) > 200

\* C4: every stop, in the loop and in the response, has battery_on_arrival at
\* or above min_charge_percent.
C4_ArrivalAboveMinimum ==
    \A r \in Runs :
        /\ \A i \in 1..Len(loc[r].stops) :
              loc[r].stops[i].battery_on_arrival >= request.min_charge_percent
        /\ Done(r) =>
              \A i \in 1..Len(response[r].charging_stops) :
                  response[r].charging_stops[i].battery_on_arrival
                      >= request.min_charge_percent

\* a returned plan of three stops or more
C4_Witness == Done(1) /\ Len(response[1].charging_stops) >= 3

\* the connector standards a catalog label stands for
ConnectorTypesOf(connector_type) ==
    IF connector_type = "DC Fast Charge (CCS/CHAdeMO)" THEN {"CCS1", "CCS2", "CHAdeMO"}
    ELSE IF connector_type = "DC Fast Charge (CCS)" THEN {"CCS1", "CCS2"}
    ELSE {"Type2"}

\* C5 (as claimed, for well-formed requests): the station of every stop has a
\* connector the vehicle supports.
C5_ConnectorCompatible ==
    \A r \in Runs :
        \A i \in 1..Len(loc[r].stops) :
            WellFormedRequest =>
            ConnectorTypesOf(loc[r].stops[i].connector_type) \cap vehicle_connectors # {}

\* C6: along the stop list distance_from_start strictly increases, and no two
\* stops lie at the same position.
C6_MonotonicProgress ==
    \A r \in Runs :
        /\ \A i \in 1..(Len(loc[r].stops) - 1) :
              loc[r].stops[i].distance_from_start < loc[r].stops[i + 1].distance_from_start
        /\ \A i, j \in 1..Len(loc[r].stops) :
              i # j => loc[r].stops[i].latitude # loc[r].stops[j].latitude

\* a plan of three stops over a catalog with two stations at one position
C6_Witness ==
    /\ Done(1) /\ Len(loc[1].stops) >= 3
    /\ \E i, j \in 1..Len(stations_df) :
          i # j /\ stations_df[i].latitude = stations_df[j].latitude

\* C7: the number of charging stops is at most 10 at every point of the loop
\* and in the returned plan.
C7_AtMostTenStops ==
    \A r \in Runs :
        /\ Len(loc[r].stops) <= 10
        /\ Len(pending[r].charging_stops) <= 10
        /\ Done(r) => /\ Len(response[r].charging_stops) <= 10
                      /\ response[r].num_charging_stops <= 10

\* a returned plan of exactly ten stops, with stations left beyond the last
C7_Witness ==
    /\ Done(1) /\ response[1].num_charging_stops = 10
    /\ \E i \in 1..Len(stations_df) : stations_df[i].latitude > loc[1].current_lat

\* no station of the catalog has a connector the vehicle supports
NoUsableStation ==
    \A i \in 1..Len(stations_df) :
        ConnectorTypesOf(connector_type_of(stations_df[i].power_kw)) \cap vehicle_connectors = {}

\* C9 (as claimed, for well-formed requests): a trip that needs charging over
\* a catalog that is empty or holds only stations the vehicle cannot use is
\* answered with success false, no stops and a message other than the success
\* message.
C9_NoUsableCatalogInfeasible ==
    \A r \in Runs :
        (Done(r) /\ WellFormedRequest /\ ~TripWithinRange /\ NoUsableStation)
        => /\ response[r].success = FALSE
           /\ response[r].charging_stops = <<>>
           /\ response[r].message # SuccessMessage

---------------------------------------------------------------------------
(* Properties of the detailed planner *)

\* a RouteResponse carries a feasibility flag only if it has a field for one
FlagsInfeasible(resp) ==
    /\ \E f \in {"feasible", "infeasible", "success"} : f \in DOMAIN resp
    /\ IF "success" \in DOMAIN resp THEN resp.success = FALSE ELSE TRUE

\* C8 (as claimed, for trips that start at or above the buffer): every
\* RouteResponse optimize_route returns has final_battery_level at or above
\* the 20% safety buffer, or flags the plan as infeasible.
C8_FinalBatteryAboveBuffer ==
    (opt.pc = "done" /\ opt_request.current_battery_level >= SAFETY_BUFFER_PERCENTAGE)
        => (opt_response.final_battery_level >= SAFETY_BUFFER_PERCENTAGE
            \/ FlagsInfeasible(opt_response))

---------------------------------------------------------------------------
(* Properties of concurrent planning calls *)

\* C11: no step of a planning call changes the shared catalog, and a call
\* interleaved with another at any step returns the stop list it returns when
\* it runs alone on its request over that catalog.
C11_InterleavedRunsIndependent ==
    [][/\ stations_df' = stations_df
       /\ \A r \in Runs :
             pc'[r] = "done" =>
                response'[r].charging_stops
                    = calculate_charging_stops(request_of(r), stations_df)]_vars

\* the second caller's call ran to its response inside the first caller's
\* loop; the two requests differ and both plans have stops
C11_Witness ==
    /\ pc[1] = "loop" /\ Len(loc[1].stops) >= 1
    /\ pc[2] = "done" /\ Len(response[2].charging_stops) >= 2
    /\ request # other_request
    /\ response[2].charging_stops[1] # loc[1].stops[1]

---------------------------------------------------------------------------
(* Properties of the route response *)

\* C12: when the routing provider gives no route (it failed, timed out or
\* answered without a route), the call still returns a successful response
\* with the charging stops of the request, a driving time of distance / 80
\* km/h (reported to the tenth of a minute), a traffic delay of 0 and
\* with_traffic false.
C12_ProviderFailureDegrades ==
    \A r \in Runs :
        (Done(r) /\ pending[r].tomtom_data = <<>>)
        => /\ response[r].success = TRUE
           /\ response[r].charging_stops = calculate_charging_stops(request, stations_df)
           /\ response[r].driving_time_minutes
                 = round_minutes(Quot(haversine_distance(request.start_lat, request.end_lat)
                                         * 3600, 80))
           /\ response[r].traffic_delay_minutes = 0
           /\ response[r].with_traffic = FALSE

\* a plan of two stops or more answered without the provider
C12_Witness ==
    /\ Done(1) /\ pending[1].tomtom_data = <<>>
    /\ Len(response[1].charging_stops) >= 2
    /\ response[1].driving_time_minutes > 0

\* the request has a non-positive battery capacity or vehicle range
InvalidRequest ==
    request.battery_capacity_kwh <= 0 \/ request.vehicle_range_km <= 0

\* C13 (as claimed): a request with a non-positive battery capacity or
\* vehicle range never enters the planning loop, and no plan is returned
\* for it.
C13_InvalidRequestRejected ==
    \A r \in Runs :
        InvalidRequest
        => /\ pc[r] # "loop"
           /\ Done(r) => response[r].success = FALSE

\* C14: the waypoints of a response are one "start" waypoint at the start,
\* then one "charging" waypoint for each charging stop in the order of
\* charging_stops, then one "end" waypoint at the destination:
\* len(charging_stops) + 2 in all.
C14_WaypointsFollowStops ==
    \A r \in Runs :
        Done(r) =>
            LET wps == response[r].waypoints
                stops == response[r].charging_stops
            IN  /\ Len(wps) = Len(stops) + 2
                /\ wps[1].type = "start" /\ wps[1].latitude = request.start_lat
                /\ wps[Len(wps)].type = "end"
                /\ wps[Len(wps)].latitude = request.end_lat
                /\ \A i \in 1..Len(stops) :
                      /\ wps[i + 1].type = "charging"
                      /\ wps[i + 1].latitude = stops[i].latitude
                      /\ wps[i + 1].name = stops[i].station_name
                      /\ wps[i + 1].segment = stops[i].segment

\* a response with three stops or more, so five waypoints or more
C14_Witness ==
    /\ Done(1) /\ Len(response[1].charging_stops) >= 3
    /\ Len(response[1].waypoints) >= 5

\* C15 (as claimed): the summary totals are the plain aggregates of the
\* returned stops: num_charging_stops is their number, charging_time_minutes
\* the sum of their charging times, total_time_minutes the driving time plus
\* that sum, and estimated_cost_tl the sum of their estimated costs times 30.
C15_TotalsAreSums ==
    \A r \in Runs :
        Done(r) =>
            LET stops == response[r].charging_stops
            IN  /\ response[r].num_charging_stops = Len(stops)
                /\ response[r].charging_time_minutes = SumChargingTimeMinutes(stops)
                /\ response[r].total_time_minutes
                      = response[r].driving_time_minutes + SumChargingTimeMinutes(stops)
                /\ response[r].estimated_cost_tl = SumEstimatedCost(stops) * TL_PER_UNIT

\* C15 (amended): the summary totals are the aggregates of the returned stops
\* rounded for display: num_charging_stops is their number,
\* charging_time_minutes the sum of their charging times rounded to a tenth
\* of a minute, total_time_minutes the unrounded driving time plus that sum,
\* rounded to a tenth of a minute, and estimated_cost_tl the sum of their
\* estimated costs times 30, rounded to two decimals.
C15_TotalsAreRoundedSums ==
    \A r \in Runs :
        Done(r) =>
            LET stops == response[r].charging_stops
                driving == driving_time_of(
                               haversine_distance(request.start_lat, request.end_lat),
                               pending[r].tomtom_data)
            IN  /\ response[r].num_charging_stops = Len(stops)
                /\ response[r].charging_time_minutes
                      = round_minutes(SumChargingTimeMinutes(stops))
                /\ response[r].total_time_minutes
                      = round_minutes(driving + SumChargingTimeMinutes(stops))
                /\ response[r].estimated_cost_tl
                      = round_exact(SumEstimatedCost(stops) * TL_PER_UNIT)

\* a response with two stops or more whose summed charging time is not a
\* whole number of tenths of a minute
C15_Witness ==
    /\ Done(1) /\ Len(response[1].charging_stops) >= 2
    /\ SumChargingTimeMinutes(response[1].charging_stops) > 0
    /\ SumChargingTimeMinutes(response[1].charging_stops) % 6 # 0
    /\ SumEstimatedCost(response[1].charging_stops) > 0

---------------------------------------------------------------------------
(* Properties of the catalog queries *)

\* C16 (as claimed): a power-range query returns the stations of the catalog
\* whose power_kw lies in [min_power, max_power], all of them and no other.
C16_PowerQueryFilters ==
    power_query.called =>
        power_query.result
            = SelectSeq(get_all_stations(stations_df), LAMBDA station :
                  /\ station.power_kw >= power_query.min_power
                  /\ station.power_kw <= power_query.max_power)

---------------------------------------------------------------------------
(* Properties of the route segmenter *)

\* C17 (as claimed): the base route is cut into max(2, round(distance / 100))
\* segments of equal length, for every total distance.
C17_SegmentCountRounded ==
    opt.pc # "idle" =>
        LET total == opt.base_route.total_distance_km
            segments == opt.base_route.segments
        IN  /\ Len(segments) = Max(2, round_half_even(total, SEGMENT_LENGTH_KM)
                                          \div SEGMENT_LENGTH_KM)
            /\ \A k \in 1..Len(segments) :
                  segments[k].distance_km * Len(segments) = total

---------------------------------------------------------------------------
(* Properties of the station scorer *)

\* C18: for every station, vehicle and preference set the score
\* _calculate_station_score returns lies in [0, 100].
C18_ScoreWithinRange ==
    scored.called => (scored.score >= 0 /\ scored.score <= 100 * 1050)

\* a score whose sum went past 100 and was capped
C18_Witness ==
    /\ scored.called
    /\ scored.score = 100 * 1050
    /\ raw_station_score(scored.station, scored.vehicle_specs, scored.preferences)
          > 100 * 1050

---------------------------------------------------------------------------
(* Properties of the choice of a stop *)

\* where the vehicle stood, and with what battery, when stop i of call r
\* was chosen
PositionBefore(r, i) ==
    IF i = 1 THEN request.start_lat ELSE loc[r].stops[i - 1].latitude

BatteryBefore(r, i) ==
    IF i = 1 THEN request.current_battery_percent ELSE request.preferred_charge_percent

\* C19: every stop placed met the candidate constraints when it was chosen:
\* it lay at least 100 km and at most 0.80 of the remaining usable range from
\* the position of the vehicle, and its detour (to the station, then to the
\* destination, less the direct distance) was at most 30 km.
C19_StopsMeetConstraints ==
    \A r \in Runs :
        \A i \in 1..Len(loc[r].stops) :
            LET stop == loc[r].stops[i]
                dist == haversine_distance(PositionBefore(r, i), stop.latitude)
                remaining_range == remaining_range_of(request.vehicle_range_km,
                                                      BatteryBefore(r, i),
                                                      request.min_charge_percent)
                detour == (dist + haversine_distance(stop.latitude, request.end_lat))
                              - haversine_distance(PositionBefore(r, i), request.end_lat)
            IN  /\ stop.distance_traveled = dist
                /\ dist >= 100
                /\ dist * 100 <= remaining_range * 80
                /\ detour <= 30

\* a plan of three stops over a catalog that also has a station behind the
\* start and stations beyond reach of the first leg
C19_Witness ==
    /\ Done(1) /\ Len(loc[1].stops) >= 3
    /\ WellFormedRequest
    /\ \E k \in 1..Len(stations_df) : stations_df[k].latitude < request.start_lat
    /\ \E k \in 1..Len(stations_df) :
          stations_df[k].latitude > loc[1].stops[1].latitude

C21_NextIterationFromStation ==
    \A r \in Runs :
        LET stops == loc[r].stops
        IN  /\ \A i \in 1..Len(stops) :
                  stops[i].battery_after_charge = request.preferred_charge_percent
            /\ Len(stops) > 0 =>
                  /\ loc[r].current_lat = stops[Len(stops)].latitude
                  /\ loc[r].current_battery = request.preferred_charge_percent
            /\ \A i \in 2..Len(stops) :
                  /\ stops[i].distance_traveled =
                        haversine_distance(stops[i - 1].latitude, stops[i].latitude)
                  /\ stops[i].kwh_charged =
                        Quot(request.battery_capacity_kwh
                                * (request.preferred_charge_percent
                                    - request.preferred_charge_percent), 100)

\* a second stop was placed from the first one, by a vehicle that left
\* with a battery level other than the preferred one
C21_Witness ==
    /\ pc[1] = "loop"
    /\ Len(loc[1].stops) >= 2
    /\ request.current_battery_percent # request.preferred_charge_percent

\* the mock stations within the radius of the lookup whose connectors the
\* vehicle supports, as positions of the candidate list
CompatibleNearby ==
    { k \in 1..Len(mock_stations(best_lookup.location)) :
        /\ mock_stations(best_lookup.location)[k].distance_km
              <= best_lookup.max_detour_km * 1000
        /\ mock_stations(best_lookup.location)[k].connector_types
              \cap best_lookup.vehicle_specs.supported_connectors # {} }

LookupScore(k) ==
    calculate_station_score(mock_stations(best_lookup.location)[k],
                            best_lookup.vehicle_specs, best_lookup.preferences)

\* C22: find_best_charging_station returns None when no station within the
\* radius is connector-compatible; otherwise it returns a compatible station
\* of maximal score, the earliest of the candidate list among those of that
\* score.
C22_BestCompatibleStation ==
    best_lookup.called =>
        IF CompatibleNearby = {}
        THEN best_lookup.result = <<>>
        ELSE \E k \in CompatibleNearby :
                /\ best_lookup.result = <<mock_stations(best_lookup.location)[k]>>
                /\ \A j \in CompatibleNearby : LookupScore(j) <= LookupScore(k)
                /\ \A j \in CompatibleNearby : j < k => LookupScore(j) < LookupScore(k)

\* a lookup that returned the earlier of two compatible stations that both
\* score the maximum
C22_Witness ==
    /\ best_lookup.called
    /\ \E k \in CompatibleNearby :
          /\ best_lookup.result = <<mock_stations(best_lookup.location)[k]>>
          /\ \E j \in CompatibleNearby : j > k /\ LookupScore(j) = LookupScore(k)

\* C23: for every charging stop the charging time is the energy added over
\* the charging power derated to 85% (time * power * 0.85 = energy, here in
\* seconds and to within one second), and the cost is the energy added times
\* the station's price per kWh.
C23_ChargingTimeDerated ==
    \A r \in Runs :
        \A i \in 1..Len(loc[r].stops) :
            WellFormedRequest =>
            LET stop == loc[r].stops[i]
                derated == stop.charging_time_minutes * stop.charging_power_kw * 85
                energy == stop.kwh_charged * 3600 * 100
            IN  /\ derated - energy < stop.charging_power_kw * 85
                /\ energy - derated < stop.charging_power_kw * 85
                /\ stop.estimated_cost = stop.kwh_charged * stop.price_per_kwh

\* C24: in the segment loop of _plan_charging_stops the simulated battery
\* level is never negative, and after every driven segment it is at least the
\* configured minimum, the 20% safety buffer.
C24_BatteryClampedAtBuffer ==
    /\ opt.current_battery >= 0
    /\ opt.i >= 1 => opt.current_battery >= SAFETY_BUFFER_PERCENTAGE

\* C25: when _find_optimal_stops leaves through its reach check, the first
\* leg is at most 0.8 * range * (current - min) / 100, every leg between
\* stops at most 0.8 * range * (preferred - min) / 100 and the last leg to
\* the destination at most range * (preferred - min) / 100; a 1150 km trip
\* with range 400 and 90/20/80 is planned with at least 3 stops.
C25_LegsWithinRange ==
    \A r \in Runs :
        loc[r].exit = "reached" =>
            LET stops == loc[r].stops
                range == request.vehicle_range_km
                min == request.min_charge_percent
                preferred == request.preferred_charge_percent
            IN  /\ Len(stops) >= 1
                /\ stops[1].distance_traveled * 10000
                      <= 80 * range * (request.current_battery_percent - min)
                /\ \A i \in 2..Len(stops) :
                      stops[i].distance_traveled * 10000 <= 80 * range * (preferred - min)
                /\ haversine_distance(stops[Len(stops)].latitude, request.end_lat) * 100
                      <= range * (preferred - min)
                /\ (/\ haversine_distance(request.start_lat, request.end_lat) = 1150
                    /\ range = 400 /\ request.current_battery_percent = 90
                    /\ min = 20 /\ preferred = 80)
                      => Len(stops) >= 3

\* the 1150 km trip of the 400 km vehicle planned to its destination
C25_Witness ==
    /\ loc[1].exit = "reached"
    /\ haversine_distance(request.start_lat, request.end_lat) = 1150
    /\ request.vehicle_range_km = 400
    /\ request.current_battery_percent = 90
    /\ request.min_charge_percent = 20
    /\ request.preferred_charge_percent = 80
    /\ Len(loc[1].stops) >= 3

\* C26: each stop is at least 70 km closer to the destination than the
\* position it was chosen from, so the distance to the destination strictly
\* decreases along the stop list and no station appears twice in a plan.
C26_StopsApproachDestination ==
    \A r \in Runs :
        LET stops == loc[r].stops
        IN  /\ \A i \in 1..Len(stops) :
                  stops[i].distance_to_destination + 70
                      <= haversine_distance(PositionBefore(r, i), request.end_lat)
            /\ \A i \in 1..(Len(stops) - 1) :
                  stops[i + 1].distance_to_destination < stops[i].distance_to_destination
            /\ \A i, j \in 1..Len(stops) :
                  i # j => stops[i].station_name # stops[j].station_name

\* a plan of two stops or more over a catalog that holds a station behind
\* the start
C26_Witness ==
    /\ Len(loc[1].stops) >= 2
    /\ \E k \in 1..Len(all_stations[1]) :
          all_stations[1][k].latitude < request.start_lat

\* departure battery - distance / range * 100 for stop i of call r
UnclampedArrival(r, i) ==
    BatteryBefore(r, i)
        - Quot(loc[r].stops[i].distance_traveled * 100, request.vehicle_range_km)

\* C27: for every stop the unclamped arrival battery is at least
\* min_charge_percent + 0.2 * (departure battery - min_charge_percent), and
\* the recorded battery_on_arrival is that unclamped value.
C27_ClampNeverActs ==
    \A r \in Runs :
        \A i \in 1..Len(loc[r].stops) :
            /\ 5 * UnclampedArrival(r, i)
                  >= 5 * request.min_charge_percent
                       + (BatteryBefore(r, i) - request.min_charge_percent)
            /\ loc[r].stops[i].battery_on_arrival = UnclampedArrival(r, i)

\* C28: every emitted stop has non-negative energy added, charging time and
\* estimated cost, also when the vehicle leaves with a battery level above
\* the preferred charge level.
C28_ChargeNonNegative ==
    WellFormedRequest =>
        \A r \in Runs :
            \A i \in 1..Len(loc[r].stops) :
                /\ loc[r].stops[i].kwh_charged >= 0
                /\ loc[r].stops[i].charging_time_minutes >= 0
                /\ loc[r].stops[i].estimated_cost >= 0

\* C29: charging never lowers the battery: every emitted stop has
\* battery_after_charge >= battery_on_arrival.
C29_ChargingNeverLowers ==
    WellFormedRequest =>
        \A r \in Runs :
            \A i \in 1..Len(loc[r].stops) :
                loc[r].stops[i].battery_after_charge >= loc[r].stops[i].battery_on_arrival

\* C30: for every stop the recorded energy agrees with the recorded battery
\* levels: kwh_charged = battery_capacity_kwh
\*                         * (battery_after_charge - battery_on_arrival) / 100.
C30_EnergyMatchesLevels ==
    WellFormedRequest =>
        \A r \in Runs :
            \A i \in 1..Len(loc[r].stops) :
                loc[r].stops[i].kwh_charged * 100
                    = request.battery_capacity_kwh
                        * (loc[r].stops[i].battery_after_charge
                            - loc[r].stops[i].battery_on_arrival)

===========================================================================
